---- MODULE Spec2Model ----
(***************************************************************************)
(* Cloud functions of the brokerage site: the admin-claim synchronizer     *)
(* (setAdminClaim and its four callers) and the first-message notifier.    *)
(* Every handler is cut at its awaits: one action per stretch of code that *)
(* runs between two round trips to the Credential Store / Document Store.  *)
(***************************************************************************)
EXTENDS Integers, FiniteSets, Sequences, TLC

\* ------------------------------------------------------------------ bounds
Uids == {"u1", "u2"}

\* Number of handler invocations (triggers and HTTP requests) of one run.
MaxInv == 2

Slots == 1..MaxInv

\* ------------------------------------------------- custom-claims mappings
\* A claims mapping is a function from the keys it holds to their values.
\* `admin` may hold true or a falsy value; `role` stands for any other key.
ClaimKeys == {"admin", "role"}

ClaimMaps ==
  { m \in UNION { [D -> {"true", "false", "editor"}] : D \in SUBSET ClaimKeys } :
      /\ ("admin" \in DOMAIN m => m["admin"] \in {"true", "false"})
      /\ ("role" \in DOMAIN m => m["role"] = "editor") }

EmptyClaims == [k \in {} |-> "editor"]

Get(m, k) == IF k \in DOMAIN m THEN m[k] ELSE "undefined"

Put(m, k, v) == [x \in (DOMAIN m) \cup {k} |-> IF x = k THEN v ELSE m[x]]

Delete(m, k) == [x \in (DOMAIN m) \ {k} |-> m[x]]

\* JavaScript truthiness of the values the model holds (`!!v`, `if (v)`).
Truthy(v) == v \notin {"undefined", "false", "absent", ""}

\* `=== true`
StrictlyTrue(v) == v = "true"

\* ------------------------------------------------------- request headers
\* An Authorization header is <scheme><whitespace?><rest>.
NoHeader == [scheme |-> "", ws |-> FALSE, rest |-> ""]

Headers ==
  {NoHeader,
   [scheme |-> "Basic", ws |-> TRUE, rest |-> "tok_u1"],
   [scheme |-> "Bearer", ws |-> FALSE, rest |-> ""],
   [scheme |-> "Bearer", ws |-> TRUE, rest |-> "tok_u1"],
   [scheme |-> "bearer", ws |-> TRUE, rest |-> "tok_u2"],
   [scheme |-> "Bearer", ws |-> TRUE, rest |-> "expired"]}

Lower(s) == IF s = "Bearer" THEN "bearer" ELSE IF s = "Basic" THEN "basic" ELSE s

\* BearerMatch with the whitespace optional: /^Bearer\s*(.*)$/i
BearerMatchLoose(h) == Lower(h.scheme) = "bearer"

\* authHeader.match(/^Bearer\s+(.*)$/i)
BearerMatch(h) == Lower(h.scheme) = "bearer" /\ h.ws

\* getAuth().verifyIdToken: the uid of a valid token, "none" when it throws.
VerifyIdToken(t) ==
  IF t = "tok_u1" THEN "u1" ELSE IF t = "tok_u2" THEN "u2" ELSE "none"

\* ------------------------------------------------------------------ state
VARIABLES
  admins,        \* uids with a document admins/{uid}
  users,         \* users/{uid}: [exists, isAdmin], isAdmin "absent" when unset
  customClaims,  \* Credential Store: [defined, map] per uid
  inv,           \* the invocations, by slot
  nInv,          \* invocations started so far
  lastWriter,    \* per uid, the invocation whose write the store holds (0: none)
  emailCfg,      \* emailjsCfg and notificationsEnabled, read from the environment
  chats,         \* chats/{chatId}: [exists, firstNotified]
  emails,        \* per chat, the notification emails the email service accepted
  flips,         \* per chat, the changes of firstNotified from falsy to true
  msg,           \* the notifier invocations, by slot
  nMsg           \* notifier invocations started so far

\* The variables of the claim synchronizer, and of the notifier.
\* The tag-backfill script: its environment and argument, the news
\* collection, and the position of main().
VARIABLES
  tagEnv,      \* which of the two required environment variables are set
  argv2,       \* process.argv[2]
  collection,  \* ids of the news documents, by publishedAt descending
  news,        \* news/{id}: the fields the script reads, and tags
  tpc,         \* where main() stands
  snap,        \* the query snapshot: documents as they were when fetched
  idx,         \* position of the for-of loop in snap.docs
  resp,        \* the completion answer received for the last document
  tags,        \* what generateTagsForDoc returned for it
  stored,      \* whether doc.ref.set ran for it, and how it ended
  processed,   \* the loop's counter of documents attempted
  updated,     \* the loop's counter of documents written
  attempted,   \* ids of the documents attempted, in order
  errors,      \* how many times the loop's catch ran
  written      \* ids of the documents whose write succeeded

tagVars == <<tagEnv, argv2, collection, news, tpc, snap, idx, resp, tags, stored,
             processed, updated, attempted, errors, written>>

\* One request to sendContactEmail.
VARIABLES
  cReq,     \* the request: method and body
  cPc,      \* where the handler stands
  cRes,     \* the status it answered with, 0 before
  cCalls    \* requests made to the email service

contactVars == <<cReq, cPc, cRes, cCalls>>

\* One request to upsertNewsWithAiSummary.
VARIABLES
  nReq,       \* the request: method and body
  openaiKey,  \* process.env.OPENAI_API_KEY
  nPc,        \* where the handler stands
  summary,    \* the handler's local `summary`
  nRes,       \* the answer: status and summary
  apiCalls,   \* requests made to the completion API
  created,    \* the news documents written: their summaries
  rejected    \* which of the two awaited calls failed: "fetch", "set"

newsVars == <<nReq, openaiKey, nPc, summary, nRes, apiCalls, created, rejected>>

syncVars == <<admins, users, customClaims, inv, nInv, lastWriter>>

chatVars == <<emailCfg, chats, emails, flips, msg, nMsg>>

vars == <<syncVars, chatVars, tagVars, contactVars, newsVars>>

\* What the actions of one component leave alone.
NotSync == <<chatVars, tagVars, contactVars, newsVars>>

NotChat == <<syncVars, tagVars, contactVars, newsVars>>

NotTags == <<syncVars, chatVars, contactVars, newsVars>>

NotContact == <<syncVars, chatVars, tagVars, newsVars>>

NotNews == <<syncVars, chatVars, tagVars, contactVars>>

IsAdminValues == {"absent", "false", "true"}

Profiles ==
  {[exists |-> FALSE, isAdmin |-> "absent"]}
  \cup { [exists |-> TRUE, isAdmin |-> v] : v \in IsAdminValues }

NoResponse == [status |-> 0, uid |-> "none", isAdmin |-> FALSE]

Idle ==
  [kind |-> "none", uid |-> "none", pc |-> "idle",
   prev |-> FALSE, next |-> FALSE, header |-> NoHeader,
   isAdmin |-> FALSE, adminExists |-> FALSE,
   userDoc |-> [exists |-> FALSE, isAdmin |-> "absent"],
   nextClaims |-> EmptyClaims, readFrom |-> 0, threw |-> "none",
   response |-> NoResponse,
   calls |-> 0, verifies |-> 0, docReads |-> 0, credReads |-> 0, credWrites |-> 0]

\* user.customClaims || {}
Existing(u) == IF customClaims[u].defined THEN customClaims[u].map ELSE EmptyClaims

\* The boolean the Document Store stands for: admins/{uid} exists, or
\* users/{uid}.isAdmin is true.
Derived(u) == u \in admins \/ (users[u].exists /\ StrictlyTrue(users[u].isAdmin))

AdminClaimTruthy(u) == Truthy(Get(Existing(u), "admin"))

\* An account as registration leaves it: a profile without the flag, no
\* authorization document, no custom claims.
Fresh(u) ==
  /\ u \notin admins
  /\ users[u] = [exists |-> TRUE, isAdmin |-> "absent"]
  /\ customClaims[u] = [defined |-> FALSE, map |-> EmptyClaims]

\* Every account starts with its claim in step with its documents; the
\* accounts are interchangeable, so one of them carries every history and
\* the others start fresh.
SyncInit ==
  /\ admins \in SUBSET Uids
  /\ users \in [Uids -> Profiles]
  /\ customClaims \in [Uids -> [defined : BOOLEAN, map : ClaimMaps]]
  /\ \A u \in Uids :
       /\ (~customClaims[u].defined => customClaims[u].map = EmptyClaims)
       /\ (AdminClaimTruthy(u) <=> Derived(u))
  /\ \A w \in Uids \ {"u1"} : Fresh(w)
  /\ inv = [i \in Slots |-> Idle]
  /\ nInv = 0
  /\ lastWriter = [u \in Uids |-> 0]

\* ------------------------------------------------------- setAdminClaim
\* NextClaims with the grant guarded like the revocation: `admin` is set only
\* when the key is missing.
NextClaimsGrantIfMissing(existing, isAdmin) ==
  IF isAdmin
    THEN IF "admin" \in DOMAIN existing THEN existing ELSE Put(existing, "admin", "true")
    ELSE IF Truthy(Get(existing, "admin"))
           THEN Delete(existing, "admin")
           ELSE existing

\* NextClaims with a revocation that writes a false value over a truthy claim
\* and removes the key only when it finds it falsy.
NextClaimsRevokeInTwoSteps(existing, isAdmin) ==
  IF isAdmin
    THEN Put(existing, "admin", "true")
    ELSE IF Truthy(Get(existing, "admin"))
           THEN Put(existing, "admin", "false")
           ELSE Delete(existing, "admin")

\* NextClaims built from scratch instead of from a copy of the mapping read.
NextClaimsAdminOnly(existing, isAdmin) ==
  IF isAdmin THEN Put(EmptyClaims, "admin", "true") ELSE EmptyClaims

\* The mapping setAdminClaim writes back, from the mapping it read.
NextClaims(existing, isAdmin) ==
  IF isAdmin
    THEN Put(existing, "admin", "true")
    ELSE IF Truthy(Get(existing, "admin"))
           THEN Delete(existing, "admin")
           ELSE existing

\* Thrown with a setAdminClaim that logs the error and does not throw it
\* again: the caller goes on as after a success.
ThrownSwallowed(r) ==
  IF r.kind = "sync"
    THEN [r EXCEPT !.pc = "done",
                   !.response = [status |-> 200, uid |-> r.uid, isAdmin |-> r.isAdmin]]
    ELSE [r EXCEPT !.pc = "done"]

\* Thrown with a catch block that answers 401 to whatever was thrown.
ThrownAnswers401(r) ==
  IF r.kind = "sync"
    THEN [r EXCEPT !.pc = "done",
                   !.response = [status |-> 401, uid |-> "none", isAdmin |-> FALSE]]
    ELSE [r EXCEPT !.pc = "failed"]

\* What a handler does with an error thrown under it: the three triggers let
\* it escape (the invocation fails), syncAdminClaims catches it and answers 500.
Thrown(r) ==
  IF r.kind = "sync"
    THEN [r EXCEPT !.pc = "done",
                   !.response = [status |-> 500, uid |-> "none", isAdmin |-> FALSE]]
    ELSE [r EXCEPT !.pc = "failed"]

\* The handler's return after setAdminClaim resolved.
Returned(r) ==
  IF r.kind = "sync"
    THEN [r EXCEPT !.pc = "done",
                   !.response = [status |-> 200, uid |-> r.uid, isAdmin |-> r.isAdmin]]
    ELSE [r EXCEPT !.pc = "done"]

Start(r) ==
  /\ nInv < MaxInv
  /\ nInv' = nInv + 1
  /\ inv' = [inv EXCEPT ![nInv + 1] = r]

\* await getAuth().getUser(uid), then the computation of nextClaims.
GetUser(i) ==
  /\ inv[i].pc = "getUser"
  /\ inv' = [inv EXCEPT ![i] =
       [@ EXCEPT !.pc = "setClaims",
                 !.nextClaims = NextClaims(Existing(inv[i].uid), inv[i].isAdmin),
                 !.readFrom = lastWriter[inv[i].uid],
                 !.credReads = @ + 1]]
  /\ UNCHANGED <<admins, users, customClaims, nInv, lastWriter>>
  /\ UNCHANGED NotSync

GetUserFails(i) ==
  /\ inv[i].pc = "getUser"
  /\ inv' = [inv EXCEPT ![i] =
       Thrown([@ EXCEPT !.credReads = @ + 1, !.threw = "getUser"])]
  /\ UNCHANGED <<admins, users, customClaims, nInv, lastWriter>>
  /\ UNCHANGED NotSync

\* await getAuth().setCustomUserClaims(uid, nextClaims), then the return.
SetCustomUserClaims(i) ==
  /\ inv[i].pc = "setClaims"
  /\ customClaims' = [customClaims EXCEPT ![inv[i].uid] =
       [defined |-> TRUE, map |-> inv[i].nextClaims]]
  /\ lastWriter' = [lastWriter EXCEPT ![inv[i].uid] = i]
  /\ inv' = [inv EXCEPT ![i] = Returned([@ EXCEPT !.credWrites = @ + 1])]
  /\ UNCHANGED <<admins, users, nInv>>
  /\ UNCHANGED NotSync

SetCustomUserClaimsFails(i) ==
  /\ inv[i].pc = "setClaims"
  /\ inv' = [inv EXCEPT ![i] = Thrown([@ EXCEPT !.threw = "setCustomUserClaims"])]
  /\ UNCHANGED <<admins, users, customClaims, nInv, lastWriter>>
  /\ UNCHANGED NotSync

\* ------------------------------------------------------------- triggers
\* A document admins/{uid} is created and the trigger runs to its first await.
onAdminDocCreated(u) ==
  /\ u \notin admins
  /\ admins' = admins \cup {u}
  /\ Start([Idle EXCEPT !.kind = "created", !.uid = u, !.pc = "getUser",
                        !.isAdmin = TRUE, !.calls = 1])
  /\ UNCHANGED <<users, customClaims, lastWriter>>
  /\ UNCHANGED NotSync

\* A document admins/{uid} is deleted and the trigger runs to its first await.
onAdminDocDeleted(u) ==
  /\ u \in admins
  /\ admins' = admins \ {u}
  /\ Start([Idle EXCEPT !.kind = "deleted", !.uid = u, !.pc = "getUser",
                        !.isAdmin = FALSE, !.calls = 1])
  /\ UNCHANGED <<users, customClaims, lastWriter>>
  /\ UNCHANGED NotSync

\* IsAdminToggled on the raw field values, without the coercion to boolean.
IsAdminFieldChanged(before, after) == before # after

\* prev !== next
IsAdminToggled(before, after) == Truthy(before) # Truthy(after)

\* users/{uid} is updated (`after` = `before` stands for an edit of another
\* field) and the trigger runs to its first await, or to its end.
onUserIsAdminUpdated(u, after) ==
  /\ users[u].exists
  /\ users' = [users EXCEPT ![u].isAdmin = after]
  /\ LET before == users[u].isAdmin
         r == [Idle EXCEPT !.kind = "updated", !.uid = u,
                           !.prev = Truthy(before), !.next = Truthy(after)]
     IN  Start(IF IsAdminToggled(before, after)
                 THEN [r EXCEPT !.pc = "getUser", !.isAdmin = r.next, !.calls = 1]
                 ELSE [r EXCEPT !.pc = "done"])
  /\ UNCHANGED <<admins, customClaims, lastWriter>>
  /\ UNCHANGED NotSync

\* ------------------------------------------------------ syncAdminClaims
\* The request arrives and the handler runs to res.status(401) or to its
\* first await.
syncAdminClaims(h) ==
  /\ Start(IF BearerMatch(h)
             THEN [Idle EXCEPT !.kind = "sync", !.header = h, !.pc = "verify"]
             ELSE [Idle EXCEPT !.kind = "sync", !.header = h, !.pc = "done",
                     !.response = [status |-> 401, uid |-> "none", isAdmin |-> FALSE]])
  /\ UNCHANGED <<admins, users, customClaims, lastWriter>>
  /\ UNCHANGED NotSync

\* await getAuth().verifyIdToken(idToken)
VerifyToken(i) ==
  /\ inv[i].pc = "verify"
  /\ LET uid == VerifyIdToken(inv[i].header.rest)
         r == [inv[i] EXCEPT !.verifies = @ + 1]
     IN  inv' = [inv EXCEPT ![i] =
           IF uid = "none" THEN Thrown(r)
                           ELSE [r EXCEPT !.uid = uid, !.pc = "readAdmin"]]
  /\ UNCHANGED <<admins, users, customClaims, nInv, lastWriter>>
  /\ UNCHANGED NotSync

\* await db.doc(`admins/${uid}`).get()
ReadAdminDoc(i) ==
  /\ inv[i].pc = "readAdmin"
  /\ inv' = [inv EXCEPT ![i] =
       [@ EXCEPT !.adminExists = (inv[i].uid \in admins), !.docReads = @ + 1,
                 !.pc = "readUser"]]
  /\ UNCHANGED <<admins, users, customClaims, nInv, lastWriter>>
  /\ UNCHANGED NotSync

\* adminDoc.exists || !!(userDoc.exists && userDoc.data().isAdmin === true)
SyncIsAdmin(adminExists, userDoc) ==
  adminExists \/ (userDoc.exists /\ StrictlyTrue(userDoc.isAdmin))

\* await db.doc(`users/${uid}`).get(), then the computation of isAdmin.
ReadUserDoc(i) ==
  /\ inv[i].pc = "readUser"
  /\ inv' = [inv EXCEPT ![i] =
       [@ EXCEPT !.userDoc = users[inv[i].uid],
                 !.isAdmin = SyncIsAdmin(inv[i].adminExists, users[inv[i].uid]),
                 !.docReads = @ + 1, !.calls = 1, !.pc = "getUser"]]
  /\ UNCHANGED <<admins, users, customClaims, nInv, lastWriter>>
  /\ UNCHANGED NotSync

\* Either document read rejects.
DocReadFails(i) ==
  /\ inv[i].pc \in {"readAdmin", "readUser"}
  /\ inv' = [inv EXCEPT ![i] = Thrown(@)]
  /\ UNCHANGED <<admins, users, customClaims, nInv, lastWriter>>
  /\ UNCHANGED NotSync

\* ------------------------------------------- notifyOnFirstUserMessage
ChatIds == {"c1", "c2"}

\* Number of message-created events of one run.
MaxMsg == 3

MsgSlots == 1..MaxMsg

\* serviceId and templateId fall back to non-empty defaults; the switch, the
\* recipient and the public key come from the environment alone.
EmailCfgs ==
  [notificationsEnabled : BOOLEAN, adminTo : {"", "admin@site"},
   serviceId : {"service_4ltybjl"}, templateId : {"template_k0tx9hp"},
   publicKey : {"", "pk"}]

\* The negation of the guard that skips the send.
CanSend(c) ==
  ~(\/ ~c.notificationsEnabled
    \/ ~Truthy(c.adminTo)
    \/ ~Truthy(c.serviceId)
    \/ ~Truthy(c.templateId)
    \/ ~Truthy(c.publicKey))

ChatDocs ==
  {[exists |-> FALSE, firstNotified |-> "absent"]}
  \cup { [exists |-> TRUE, firstNotified |-> v] : v \in {"absent", "false", "true"} }

MsgIdle == [chatId |-> "none", pc |-> "idle"]

ChatInit ==
  /\ emailCfg \in EmailCfgs
  /\ chats \in [ChatIds -> ChatDocs]
  /\ emails = [c \in ChatIds |-> 0]
  /\ flips = [c \in ChatIds |-> 0]
  /\ msg = [i \in MsgSlots |-> MsgIdle]
  /\ nMsg = 0

\* A document chats/{chatId}/messages/{messageId} is created and the trigger
\* runs to its first await, or returns at once (no snapshot, no data, or an
\* author who is not the user).
notifyOnFirstUserMessage(c, authorRole) ==
  /\ nMsg < MaxMsg
  /\ nMsg' = nMsg + 1
  /\ msg' = [msg EXCEPT ![nMsg + 1] =
       [chatId |-> c, pc |-> IF authorRole # "user" THEN "done" ELSE "getChat"]]
  /\ UNCHANGED <<emailCfg, chats, emails, flips>>
  /\ UNCHANGED NotChat

\* await chatRef.get(), then the guards and the choice to send or to skip.
GetChat(i) ==
  /\ msg[i].pc = "getChat"
  /\ LET chat == chats[msg[i].chatId]
     IN  msg' = [msg EXCEPT ![i].pc =
           IF ~chat.exists THEN "done"
           ELSE IF Truthy(chat.firstNotified) THEN "done"
           ELSE IF CanSend(emailCfg) THEN "send"
           ELSE "update"]
  /\ UNCHANGED <<emailCfg, chats, emails, flips, nMsg>>
  /\ UNCHANGED NotChat

GetChatFails(i) ==
  /\ msg[i].pc = "getChat"
  /\ msg' = [msg EXCEPT ![i].pc = "failed"]
  /\ UNCHANGED <<emailCfg, chats, emails, flips, nMsg>>
  /\ UNCHANGED NotChat

\* await fetch(...) answered ok: the email service accepted the email.
SendEmail(i) ==
  /\ msg[i].pc = "send"
  /\ emails' = [emails EXCEPT ![msg[i].chatId] = @ + 1]
  /\ msg' = [msg EXCEPT ![i].pc = "update"]
  /\ UNCHANGED <<emailCfg, chats, flips, nMsg>>
  /\ UNCHANGED NotChat

\* fetch rejected or answered !ok: caught and logged, the handler goes on.
SendEmailFails(i) ==
  /\ msg[i].pc = "send"
  /\ msg' = [msg EXCEPT ![i].pc = "update"]
  /\ UNCHANGED <<emailCfg, chats, emails, flips, nMsg>>
  /\ UNCHANGED NotChat

\* await chatRef.update({ firstNotified: true })
UpdateChat(i) ==
  /\ msg[i].pc = "update"
  /\ LET c == msg[i].chatId
     IN  /\ chats' = [chats EXCEPT ![c].firstNotified = "true"]
         /\ flips' = [flips EXCEPT ![c] =
              IF Truthy(chats[c].firstNotified) THEN @ ELSE @ + 1]
  /\ msg' = [msg EXCEPT ![i].pc = "done"]
  /\ UNCHANGED <<emailCfg, emails, nMsg>>
  /\ UNCHANGED NotChat

UpdateChatFails(i) ==
  /\ msg[i].pc = "update"
  /\ msg' = [msg EXCEPT ![i].pc = "failed"]
  /\ UNCHANGED <<emailCfg, chats, emails, flips, nMsg>>
  /\ UNCHANGED NotChat

\* ------------------------------------------------------ tag backfill
NewsIds == {"n1", "n2"}

\* Longest list of tags in a completion answer.
MaxTags == 3

\* maxDocs when process.argv[2] is not a positive finite number.
DefaultMaxDocs == 20

ALLOWED_TAGS ==
  {"auto", "vida", "saude", "habitacao", "empresas", "rc-profissional",
   "condominio", "multirriscos-empresarial", "frota", "acidentes-trabalho",
   "fiscalidade", "sinistros", "economia", "ambiente", "infraestruturas",
   "local", "nacional"}

\* Tags as the completion model may spell them.
RawTags == {"auto", "Vida ", "desporto"}

\* String(t).toLowerCase().trim()
LowerTrim(t) ==
  CASE t = "Vida " -> "vida"
    [] t = "Auto"  -> "auto"
    [] OTHER       -> t

TagLists == UNION { [1..n -> RawTags] : n \in 0..MaxTags }

\* What message.content of the first choice holds:
\*   object         {"tags": [...]}
\*   fencedObject   ```json {"tags": [...]} ```
\*   array          [...]
\*   prefixedArray  json: [...]
\*   objectNoTags   {"labels": "..."}
\*   text           prose, no JSON
\*   noContent      no choices, or a content that is not a string
ListShapes == {"object", "fencedObject", "array", "prefixedArray"}

Responses ==
  { [shape |-> sh, list |-> l] : sh \in ListShapes, l \in TagLists }
  \cup { [shape |-> sh, list |-> << >>] : sh \in {"objectNoTags", "text", "noContent"} }

NoResp == [shape |-> "none", list |-> << >>]

\* content.match(fence): the inside of a code block, when there is one.
StripFence(r) == IF r.shape = "fencedObject" THEN [r EXCEPT !.shape = "object"] ELSE r

\* .map(t => String(t).toLowerCase().trim()).filter(t => ALLOWED_TAGS.includes(t))
MapFilter(l) ==
  SelectSeq([k \in 1..Len(l) |-> LowerTrim(l[k])], LAMBDA t : t \in ALLOWED_TAGS)

\* The try block: JSON.parse(content) and the read of parsed.tags.  A bare
\* array parses, and has no property `tags`.
FirstParse(r) ==
  CASE r.shape = "object"       -> [threw |-> FALSE, tags |-> MapFilter(r.list)]
    [] r.shape = "array"        -> [threw |-> FALSE, tags |-> << >>]
    [] r.shape = "objectNoTags" -> [threw |-> FALSE, tags |-> << >>]
    [] OTHER                    -> [threw |-> TRUE, tags |-> << >>]

\* The catch block: parse again what is left without fences and `json:`.
Fallback(r) == IF r.shape = "prefixedArray" THEN MapFilter(r.list) ELSE << >>

\* generateTagsForDoc from the completion answer on; null is << >>.
ParseTags(r) ==
  LET c == StripFence(r)
      first == FirstParse(c)
  IN IF first.threw THEN Fallback(c) ELSE first.tags

Args == {[finite |-> FALSE, value |-> 0], [finite |-> TRUE, value |-> 0],
         [finite |-> TRUE, value |-> 1]}

\* Number.isFinite(Number(arg)) && Number(arg) > 0 ? Number(arg) : 20
MaxDocs(arg) == IF arg.finite /\ arg.value > 0 THEN arg.value ELSE DefaultMaxDocs

NoTagsField == [present |-> FALSE, list |-> << >>]

\* News documents as the repository writes them: upsertNewsWithAiSummary
\* sets no tags, the script sets a non-empty list.
NewsDocs ==
  { [title |-> t[1], summary |-> t[2], tags |-> g] :
      t \in {<<TRUE, TRUE>>, <<TRUE, FALSE>>, <<FALSE, FALSE>>},
      g \in {NoTagsField, [present |-> TRUE, list |-> <<"auto", "vida">>]} }

NoDoc == [title |-> FALSE, summary |-> FALSE, tags |-> NoTagsField]

Collections == {<< >>, <<"n1">>, <<"n1", "n2">>}

InSeq(q) == { q[k] : k \in 1..Len(q) }

Prefix(q, n) == SubSeq(q, 1, IF n < Len(q) THEN n ELSE Len(q))

TagsInit ==
  /\ tagEnv \in {[key |-> TRUE, account |-> TRUE], [key |-> FALSE, account |-> TRUE],
                 [key |-> TRUE, account |-> FALSE]}
  /\ argv2 \in Args
  /\ collection \in Collections
  /\ news \in [NewsIds -> NewsDocs \cup {NoDoc}]
  /\ \A d \in NewsIds : (d \notin InSeq(collection)) => news[d] = NoDoc
  /\ tpc = "start"
  /\ snap = << >>
  /\ idx = 0
  /\ resp = NoResp
  /\ tags = << >>
  /\ stored = "none"
  /\ processed = 0
  /\ updated = 0
  /\ attempted = << >>
  /\ errors = 0
  /\ written = {}

\* The two checks of the environment before anything else runs.
CheckEnv ==
  /\ tpc = "start"
  /\ tpc' = IF tagEnv.key /\ tagEnv.account THEN "query" ELSE "exit1"
  /\ UNCHANGED <<tagEnv, argv2, collection, news, snap, idx, resp, tags, stored,
                 processed, updated, attempted, errors, written>>
  /\ UNCHANGED NotTags

\* The query resolved; an empty snapshot ends main().
QueryNews ==
  /\ tpc = "query"
  /\ snap' = [k \in 1..Len(Prefix(collection, MaxDocs(argv2))) |->
                [id |-> collection[k], data |-> news[collection[k]]]]
  /\ tpc' = IF snap' = << >> THEN "done" ELSE "examine"
  /\ idx' = 1
  /\ UNCHANGED <<tagEnv, argv2, collection, news, resp, tags, stored,
                 processed, updated, attempted, errors, written>>
  /\ UNCHANGED NotTags

\* The query rejected: main().catch exits with 1.
QueryFails ==
  /\ tpc = "query"
  /\ tpc' = "exit1"
  /\ UNCHANGED <<tagEnv, argv2, collection, news, snap, idx, resp, tags, stored,
                 processed, updated, attempted, errors, written>>
  /\ UNCHANGED NotTags

\* Array.isArray(data.tags) && data.tags.length > 0
HasTags(data) == data.tags.present /\ Len(data.tags.list) > 0

\* The head of one iteration, up to the completion request: a document with
\* tags is passed over, one with neither title nor summary is counted and
\* left without a request.
Examine ==
  /\ tpc = "examine"
  /\ idx <= Len(snap)
  /\ resp' = NoResp
  /\ tags' = << >>
  /\ stored' = "none"
  /\ IF HasTags(snap[idx].data)
       THEN /\ idx' = idx + 1
            /\ UNCHANGED <<tpc, processed, attempted>>
       ELSE /\ processed' = processed + 1
            /\ attempted' = Append(attempted, snap[idx].id)
            /\ IF ~snap[idx].data.title /\ ~snap[idx].data.summary
                 THEN idx' = idx + 1 /\ UNCHANGED tpc
                 ELSE tpc' = "fetch" /\ UNCHANGED idx
  /\ UNCHANGED <<tagEnv, argv2, collection, news, snap, updated, errors, written>>
  /\ UNCHANGED NotTags

\* The loop ran out of documents: the summary is logged and main() returns.
Finish ==
  /\ tpc = "examine"
  /\ idx > Len(snap)
  /\ tpc' = "done"
  /\ UNCHANGED <<tagEnv, argv2, collection, news, snap, idx, resp, tags, stored,
                 processed, updated, attempted, errors, written>>
  /\ UNCHANGED NotTags

\* The completion request answered 2xx; the answer is parsed and either
\* handed to the write or dropped.
FetchOk(r) ==
  /\ tpc = "fetch"
  /\ resp' = r
  /\ tags' = ParseTags(r)
  /\ IF Len(tags') > 0
       THEN tpc' = "set" /\ UNCHANGED idx
       ELSE tpc' = "examine" /\ idx' = idx + 1
  /\ UNCHANGED <<tagEnv, argv2, collection, news, snap, stored,
                 processed, updated, attempted, errors, written>>
  /\ UNCHANGED NotTags

\* FetchFails with a loop that does not catch.
FetchFailsFatal ==
  /\ tpc = "fetch"
  /\ tpc' = "exit1"
  /\ UNCHANGED <<tagEnv, argv2, collection, news, snap, idx, resp, tags, stored,
                 processed, updated, attempted, errors, written>>
  /\ UNCHANGED NotTags

\* The request rejected or answered non-2xx: generateTagsForDoc throws and
\* the loop's catch logs it.
FetchFails ==
  /\ tpc = "fetch"
  /\ errors' = errors + 1
  /\ tpc' = "examine"
  /\ idx' = idx + 1
  /\ UNCHANGED <<tagEnv, argv2, collection, news, snap, resp, tags, stored,
                 processed, updated, attempted, written>>
  /\ UNCHANGED NotTags

\* SetTags as a write without merge.
SetTagsNoMerge ==
  /\ tpc = "set"
  /\ news' = [news EXCEPT ![snap[idx].id] =
                [title |-> FALSE, summary |-> FALSE,
                 tags |-> [present |-> TRUE, list |-> tags]]]
  /\ stored' = "yes"
  /\ updated' = updated + 1
  /\ written' = written \cup {snap[idx].id}
  /\ tpc' = "examine"
  /\ idx' = idx + 1
  /\ UNCHANGED <<tagEnv, argv2, collection, snap, resp, tags, processed, attempted, errors>>
  /\ UNCHANGED NotTags

\* doc.ref.set({ tags }, { merge: true }) resolved.
SetTags ==
  /\ tpc = "set"
  /\ news' = [news EXCEPT ![snap[idx].id].tags = [present |-> TRUE, list |-> tags]]
  /\ stored' = "yes"
  /\ updated' = updated + 1
  /\ written' = written \cup {snap[idx].id}
  /\ tpc' = "examine"
  /\ idx' = idx + 1
  /\ UNCHANGED <<tagEnv, argv2, collection, snap, resp, tags, processed, attempted, errors>>
  /\ UNCHANGED NotTags

\* The write rejected: the loop's catch logs it.
SetTagsFails ==
  /\ tpc = "set"
  /\ stored' = "failed"
  /\ errors' = errors + 1
  /\ tpc' = "examine"
  /\ idx' = idx + 1
  /\ UNCHANGED <<tagEnv, argv2, collection, news, snap, resp, tags,
                 processed, updated, attempted, written>>
  /\ UNCHANGED NotTags

\* ---------------------------------------------------- sendContactEmail
Methods == {"POST", "GET"}

\* A field of a JSON body: not there, the empty string, or a value.
FieldValues == {"absent", "", "value"}

\* What template_params can be in a JSON body.
ParamKinds == {"absent", "null", "string", "number", "object", "array"}

\* typeof v === 'object'
TypeofObject(k) == k \in {"object", "array", "null"}

\* !v for a template_params of kind k (the string and the number are non-zero).
Falsy(k) == k \in {"absent", "null"}

\* req.body ?? {} : a body that is no JSON object has none of the fields.
NoContactBody ==
  [service_id |-> "absent", template_id |-> "absent", user_id |-> "absent",
   template_params |-> "absent"]

ContactBodies ==
  {NoContactBody}
  \cup [service_id : FieldValues, template_id : FieldValues, user_id : FieldValues,
        template_params : ParamKinds]

\* Statuses the email service answers with.
UpstreamStatuses == {200, 400, 412, 500}

\* The guard without its typeof test.
MissingRequiredFieldsNoTypeof(b) ==
  \/ ~Truthy(b.service_id)
  \/ ~Truthy(b.template_id)
  \/ ~Truthy(b.user_id)
  \/ Falsy(b.template_params)

\* !service_id || !template_id || !user_id || !template_params
\*   || typeof template_params !== 'object'
MissingRequiredFields(b) ==
  \/ ~Truthy(b.service_id)
  \/ ~Truthy(b.template_id)
  \/ ~Truthy(b.user_id)
  \/ Falsy(b.template_params)
  \/ ~TypeofObject(b.template_params)

ContactInit ==
  /\ cReq \in [method : Methods, body : ContactBodies]
  /\ cPc = "received"
  /\ cRes = 0
  /\ cCalls = 0

\* The handler up to its first await: 405, 400, or the request to EmailJS.
sendContactEmail ==
  /\ cPc = "received"
  /\ IF cReq.method # "POST"
       THEN cRes' = 405 /\ cPc' = "done" /\ UNCHANGED cCalls
       ELSE IF MissingRequiredFields(cReq.body)
         THEN cRes' = 400 /\ cPc' = "done" /\ UNCHANGED cCalls
         ELSE cCalls' = cCalls + 1 /\ cPc' = "fetch" /\ UNCHANGED cRes
  /\ UNCHANGED cReq
  /\ UNCHANGED NotContact

\* EmailJS answered: 200 on a 2xx, its own status otherwise.
EmailJsAnswers(status) ==
  /\ cPc = "fetch"
  /\ cRes' = status
  /\ cPc' = "done"
  /\ UNCHANGED <<cReq, cCalls>>
  /\ UNCHANGED NotContact

\* The request to EmailJS rejected: the catch answers 500.
EmailJsFails ==
  /\ cPc = "fetch"
  /\ cRes' = 500
  /\ cPc' = "done"
  /\ UNCHANGED <<cReq, cCalls>>
  /\ UNCHANGED NotContact

\* ---------------------------------------------- upsertNewsWithAiSummary
NoNewsBody == [title |-> "absent", url |-> "absent", source |-> "absent"]

NewsBodies == [title : FieldValues, url : FieldValues, source : FieldValues]

\* What the completion answer holds as content, once trimmed; the empty
\* string also stands for an answer without choices or content.
Contents == {"", "resumo"}

NoAnswer == [status |-> 0, summary |-> ""]

NewsInit ==
  /\ nReq \in [method : Methods, body : NewsBodies]
  /\ openaiKey \in FieldValues
  /\ nPc = "received"
  /\ summary = ""
  /\ nRes = NoAnswer
  /\ apiCalls = 0
  /\ created = << >>
  /\ rejected = {}

\* The handler up to its first await: 405, 400, the completion request when
\* a key is set, the write otherwise.
upsertNewsWithAiSummary ==
  /\ nPc = "received"
  /\ IF nReq.method # "POST"
       THEN nRes' = [status |-> 405, summary |-> ""] /\ nPc' = "done" /\ UNCHANGED apiCalls
       ELSE IF ~Truthy(nReq.body.title) \/ ~Truthy(nReq.body.url) \/ ~Truthy(nReq.body.source)
         THEN nRes' = [status |-> 400, summary |-> ""] /\ nPc' = "done" /\ UNCHANGED apiCalls
         ELSE IF Truthy(openaiKey)
           THEN apiCalls' = apiCalls + 1 /\ nPc' = "fetch" /\ UNCHANGED nRes
           ELSE nPc' = "set" /\ UNCHANGED <<nRes, apiCalls>>
  /\ UNCHANGED <<nReq, openaiKey, summary, created, rejected>>
  /\ UNCHANGED NotNews

\* The completion API answered 2xx: summary is the trimmed content.
CompletionOk(content) ==
  /\ nPc = "fetch"
  /\ summary' = content
  /\ nPc' = "set"
  /\ UNCHANGED <<nReq, openaiKey, nRes, apiCalls, created, rejected>>
  /\ UNCHANGED NotNews

\* CompletionFails without the inner try/catch: the outer catch answers 500.
CompletionFailsUncaught ==
  /\ nPc = "fetch"
  /\ rejected' = rejected \cup {"fetch"}
  /\ nRes' = [status |-> 500, summary |-> ""]
  /\ nPc' = "done"
  /\ UNCHANGED <<nReq, openaiKey, summary, apiCalls, created>>
  /\ UNCHANGED NotNews

\* The completion request rejected or answered non-2xx: the inner catch
\* logs it and sets the empty summary.
CompletionFails ==
  /\ nPc = "fetch"
  /\ rejected' = rejected \cup {"fetch"}
  /\ summary' = ""
  /\ nPc' = "set"
  /\ UNCHANGED <<nReq, openaiKey, nRes, apiCalls, created>>
  /\ UNCHANGED NotNews

\* newsRef.set resolved: one new document, 200 with the summary.
SetNews ==
  /\ nPc = "set"
  /\ created' = Append(created, summary)
  /\ nRes' = [status |-> 200, summary |-> summary]
  /\ nPc' = "done"
  /\ UNCHANGED <<nReq, openaiKey, summary, apiCalls, rejected>>
  /\ UNCHANGED NotNews

\* newsRef.set rejected: the outer catch answers 500.
SetNewsFails ==
  /\ nPc = "set"
  /\ rejected' = rejected \cup {"set"}
  /\ nRes' = [status |-> 500, summary |-> ""]
  /\ nPc' = "done"
  /\ UNCHANGED <<nReq, openaiKey, summary, apiCalls, created>>
  /\ UNCHANGED NotNews

\* -------------------------------------------------------- specifications
\* A component that a specification leaves out rests in one state.
SyncRest ==
  /\ admins = {}
  /\ users = [u \in Uids |-> [exists |-> TRUE, isAdmin |-> "absent"]]
  /\ customClaims = [u \in Uids |-> [defined |-> FALSE, map |-> EmptyClaims]]
  /\ inv = [i \in Slots |-> Idle]
  /\ nInv = 0
  /\ lastWriter = [u \in Uids |-> 0]

ChatRest ==
  /\ emailCfg = [notificationsEnabled |-> FALSE, adminTo |-> "",
                 serviceId |-> "service_4ltybjl", templateId |-> "template_k0tx9hp",
                 publicKey |-> ""]
  /\ chats = [c \in ChatIds |-> [exists |-> FALSE, firstNotified |-> "absent"]]
  /\ emails = [c \in ChatIds |-> 0]
  /\ flips = [c \in ChatIds |-> 0]
  /\ msg = [i \in MsgSlots |-> MsgIdle]
  /\ nMsg = 0

TagsRest ==
  /\ tagEnv = [key |-> FALSE, account |-> FALSE]
  /\ argv2 = [finite |-> FALSE, value |-> 0]
  /\ collection = << >>
  /\ news = [d \in NewsIds |-> NoDoc]
  /\ tpc = "off"
  /\ snap = << >>
  /\ idx = 0
  /\ resp = NoResp
  /\ tags = << >>
  /\ stored = "none"
  /\ processed = 0
  /\ updated = 0
  /\ attempted = << >>
  /\ errors = 0
  /\ written = {}

ContactRest ==
  /\ cReq = [method |-> "GET", body |-> NoContactBody]
  /\ cPc = "off"
  /\ cRes = 0
  /\ cCalls = 0

NewsRest ==
  /\ nReq = [method |-> "GET", body |-> NoNewsBody]
  /\ openaiKey = "absent"
  /\ nPc = "off"
  /\ summary = ""
  /\ nRes = NoAnswer
  /\ apiCalls = 0
  /\ created = << >>
  /\ rejected = {}

Init == SyncInit /\ ChatRest /\ TagsRest /\ ContactRest /\ NewsRest

Next ==
  \/ \E u \in Uids : onAdminDocCreated(u)
  \/ \E u \in Uids : onAdminDocDeleted(u)
  \/ \E u \in Uids, after \in IsAdminValues : onUserIsAdminUpdated(u, after)
  \/ \E h \in Headers : syncAdminClaims(h)
  \/ \E i \in Slots : VerifyToken(i)
  \/ \E i \in Slots : ReadAdminDoc(i)
  \/ \E i \in Slots : ReadUserDoc(i)
  \/ \E i \in Slots : DocReadFails(i)
  \/ \E i \in Slots : GetUser(i)
  \/ \E i \in Slots : GetUserFails(i)
  \/ \E i \in Slots : SetCustomUserClaims(i)
  \/ \E i \in Slots : SetCustomUserClaimsFails(i)

\* The claim synchronizer.
Spec == Init /\ [][Next]_vars

InitChat == ChatInit /\ SyncRest /\ TagsRest /\ ContactRest /\ NewsRest

NextChat ==
  \/ \E c \in ChatIds, r \in {"user", "admin"} : notifyOnFirstUserMessage(c, r)
  \/ \E i \in MsgSlots : GetChat(i)
  \/ \E i \in MsgSlots : GetChatFails(i)
  \/ \E i \in MsgSlots : SendEmail(i)
  \/ \E i \in MsgSlots : SendEmailFails(i)
  \/ \E i \in MsgSlots : UpdateChat(i)
  \/ \E i \in MsgSlots : UpdateChatFails(i)

\* The first-message notifier.
SpecChat == InitChat /\ [][NextChat]_vars

InitTags == TagsInit /\ SyncRest /\ ChatRest /\ ContactRest /\ NewsRest

NextTags ==
  \/ CheckEnv
  \/ QueryNews
  \/ QueryFails
  \/ Examine
  \/ Finish
  \/ \E r \in Responses : FetchOk(r)
  \/ FetchFails
  \/ SetTags
  \/ SetTagsFails

\* The tag-backfill script, one run.
SpecTags == InitTags /\ [][NextTags]_vars

\* The same run on a machine that keeps executing it.
SpecTagsFair == SpecTags /\ WF_vars(NextTags)

InitContact == ContactInit /\ SyncRest /\ ChatRest /\ TagsRest /\ NewsRest

NextContact ==
  \/ sendContactEmail
  \/ \E st \in UpstreamStatuses : EmailJsAnswers(st)
  \/ EmailJsFails

\* The contact-email relay, one request.
SpecContact == InitContact /\ [][NextContact]_vars

InitNews == NewsInit /\ SyncRest /\ ChatRest /\ TagsRest /\ ContactRest

NextNews ==
  \/ upsertNewsWithAiSummary
  \/ \E c \in Contents : CompletionOk(c)
  \/ CompletionFails
  \/ SetNews
  \/ SetNewsFails

\* The news ingestion endpoint, one request.
SpecNews == InitNews /\ [][NextNews]_vars

\* ================================================================ claims
Started(i) == inv[i].pc # "idle"

\* The handler returned, and an HTTP handler answered 200.
Succeeded(i) ==
  /\ inv[i].pc = "done"
  /\ (inv[i].kind = "sync" => inv[i].response.status = 200)

IsTrigger(i) == inv[i].kind \in {"created", "deleted", "updated"}

\* The invocation wrote the claims, and the store still holds its write.
HoldsWriteOf(i) ==
  /\ inv[i].credWrites = 1
  /\ lastWriter[inv[i].uid] = i

\* C1: when every invocation so far was one of the three triggers and has
\* completed successfully, the `admin` claim of every uid is present and
\* truthy exactly when admins/{uid} exists or users/{uid}.isAdmin is true.
C1_ClaimMatchesDocuments ==
  (\A i \in Slots : Started(i) => (IsTrigger(i) /\ Succeeded(i)))
    => \A u \in Uids : AdminClaimTruthy(u) <=> Derived(u)

\* C2: when every invocation so far (triggers and sync-now, run in any
\* interleaving) has finished successfully, the `admin` claim equals the
\* boolean derived from the final documents.  Stated on the accounts without
\* a profile document, where the derived boolean is the existence of
\* admins/{uid} and each of the handlers run alone leaves the claim equal to it.
C2_FinalClaimMatchesDocuments ==
  (\A i \in Slots : Started(i) => Succeeded(i))
    => \A u \in Uids : ~users[u].exists => (AdminClaimTruthy(u) <=> Derived(u))

\* C3: after onAdminDocCreated has completed successfully, whatever mapping it
\* read, the mapping it wrote holds admin = true, and so does the Credential
\* Store record of its uid for as long as that write stands.
C3_CreatedGrantsAdmin ==
  \A i \in Slots :
    (inv[i].kind = "created" /\ inv[i].pc = "done") =>
      /\ inv[i].credWrites = 1
      /\ Get(inv[i].nextClaims, "admin") = "true"
      /\ (lastWriter[inv[i].uid] = i =>
            /\ customClaims[inv[i].uid].defined
            /\ customClaims[inv[i].uid].map = inv[i].nextClaims)

C3_Witness ==
  \E i \in Slots :
    /\ inv[i].kind = "created" /\ inv[i].pc = "done" /\ HoldsWriteOf(i)
    /\ Get(customClaims[inv[i].uid].map, "admin") = "true"
    /\ "role" \in DOMAIN customClaims[inv[i].uid].map

\* C4: after onAdminDocDeleted has completed successfully, whatever mapping it
\* read (one with a falsy `admin` included), the claims mapping of its uid
\* holds no `admin` key.
C4_DeletedRemovesAdminKey ==
  \A i \in Slots :
    (inv[i].kind = "deleted" /\ inv[i].pc = "done" /\ HoldsWriteOf(i)) =>
      "admin" \notin DOMAIN Existing(inv[i].uid)

\* C5: onUserIsAdminUpdated on an event whose before and after isAdmin are
\* equal as booleans returns without calling setAdminClaim, reading or writing
\* the Credential Store; when they differ it calls setAdminClaim(uid, next)
\* once.
C5_UpdatedActsOnToggleOnly ==
  \A i \in Slots :
    inv[i].kind = "updated" =>
      IF inv[i].prev = inv[i].next
        THEN /\ inv[i].pc = "done"
             /\ inv[i].calls = 0
             /\ inv[i].credReads = 0
             /\ inv[i].credWrites = 0
             /\ lastWriter[inv[i].uid] # i
        ELSE /\ inv[i].calls = 1
             /\ inv[i].isAdmin = inv[i].next
             /\ inv[i].credWrites <= 1

C5_Witness ==
  \E i, j \in Slots :
    /\ inv[i].kind = "updated" /\ inv[i].prev = inv[i].next /\ inv[i].pc = "done"
    /\ inv[j].kind = "updated" /\ inv[j].prev # inv[j].next /\ inv[j].pc = "done"
    /\ inv[j].credWrites = 1

\* j called setAdminClaim with the value i called it with, and read the
\* mapping that i wrote: the two calls ran in sequence.
InSequence(i, j) ==
  /\ inv[j].credWrites = 1
  /\ inv[j].readFrom = i
  /\ inv[i].isAdmin = inv[j].isAdmin

\* C6: setAdminClaim is idempotent: a second call with the same isAdmin, made
\* on the mapping the first call wrote, writes that same mapping.
C6_SetAdminClaimIdempotent ==
  \A i, j \in Slots :
    InSequence(i, j) =>
      /\ inv[j].nextClaims = inv[i].nextClaims
      /\ (lastWriter[inv[j].uid] = j => Existing(inv[j].uid) = inv[i].nextClaims)

C6_Witness ==
  \E i, j \in Slots :
    /\ InSequence(i, j) /\ HoldsWriteOf(j)
    /\ ~inv[j].isAdmin
    /\ "role" \in DOMAIN inv[j].nextClaims

\* The header is missing, or is not `Bearer <token>`.
MissingOrMalformed(h) == h.scheme \notin {"Bearer", "bearer"} \/ ~h.ws

\* C7: syncAdminClaims with a missing Authorization header, or one that is
\* not `Bearer <token>`, answers 401 and verifies no token, reads no document
\* and neither reads nor writes the Credential Store.
C7_BadHeaderAnswers401 ==
  \A i \in Slots :
    (inv[i].kind = "sync" /\ MissingOrMalformed(inv[i].header)) =>
      /\ inv[i].pc = "done"
      /\ inv[i].response.status = 401
      /\ inv[i].verifies = 0
      /\ inv[i].docReads = 0
      /\ inv[i].calls = 0
      /\ inv[i].credReads = 0
      /\ inv[i].credWrites = 0

C7_Witness ==
  \E i, j \in Slots :
    /\ inv[i].kind = "sync" /\ inv[i].header = NoHeader
    /\ inv[i].response.status = 401
    /\ inv[j].kind = "sync" /\ inv[j].header.scheme = "Bearer" /\ ~inv[j].header.ws
    /\ inv[j].response.status = 401

\* C8: a syncAdminClaims that answered 200 computed isAdmin as (admins/{uid}
\* exists) or (users/{uid} exists and its isAdmin is true), answered with that
\* uid and isAdmin, and left the `admin` key present in the Credential Store
\* exactly when isAdmin is true.
C8_SyncNowSetsDerivedClaim ==
  \A i \in Slots :
    (inv[i].kind = "sync" /\ inv[i].response.status = 200) =>
      /\ inv[i].isAdmin =
           (inv[i].adminExists \/ (inv[i].userDoc.exists /\ inv[i].userDoc.isAdmin = "true"))
      /\ inv[i].response.uid = inv[i].uid
      /\ inv[i].response.isAdmin = inv[i].isAdmin
      /\ (lastWriter[inv[i].uid] = i =>
            (("admin" \in DOMAIN Existing(inv[i].uid)) <=> inv[i].isAdmin))

\* C9: syncAdminClaims with a well-formed Bearer header whose token fails
\* verification answers 500, not 401, reads no document and neither reads nor
\* writes the Credential Store.
C9_BadTokenAnswers500 ==
  \A i \in Slots :
    (/\ inv[i].kind = "sync"
     /\ ~MissingOrMalformed(inv[i].header)
     /\ inv[i].header.rest = "expired"
     /\ inv[i].pc # "verify") =>
      /\ inv[i].pc = "done"
      /\ inv[i].verifies = 1
      /\ inv[i].response.status = 500
      /\ inv[i].docReads = 0
      /\ inv[i].calls = 0
      /\ inv[i].credReads = 0
      /\ inv[i].credWrites = 0

C9_Witness ==
  \E i \in Slots :
    /\ inv[i].kind = "sync" /\ inv[i].header.rest = "expired"
    /\ inv[i].verifies = 1 /\ inv[i].response.status = 500

\* C10: for every chat, over every interleaving of notifyOnFirstUserMessage
\* invocations, firstNotified changes from false to true at most once and at
\* most one notification email is sent.
C10_AtMostOneNotification ==
  \A c \in ChatIds : flips[c] <= 1 /\ emails[c] <= 1

\* getUser or setCustomUserClaims rejected under this invocation.
CredentialStoreFailed(i) == inv[i].threw \in {"getUser", "setCustomUserClaims"}

\* C16: when getUser or setCustomUserClaims fails inside setAdminClaim, the
\* error reaches the caller (a trigger invocation fails, syncAdminClaims
\* answers 500), the invocation has written nothing to the claims mapping
\* (after a failed read no write is attempted), and nothing is tried again:
\* one call, one read.
C16_CredentialStoreFailureSurfaces ==
  \A i \in Slots :
    CredentialStoreFailed(i) =>
      /\ IF inv[i].kind = "sync"
           THEN inv[i].pc = "done" /\ inv[i].response.status = 500
           ELSE inv[i].pc = "failed"
      /\ inv[i].calls = 1
      /\ inv[i].credReads = 1
      /\ inv[i].credWrites = 0
      /\ lastWriter[inv[i].uid] # i
      /\ (inv[i].threw = "getUser" => inv[i].nextClaims = EmptyClaims)

C16_Witness ==
  \E i, j \in Slots :
    /\ IsTrigger(i) /\ inv[i].threw = "getUser" /\ inv[i].pc = "failed"
    /\ inv[j].kind = "sync" /\ inv[j].threw = "setCustomUserClaims"
    /\ inv[j].response.status = 500

\* Every key but `admin` is in m2 exactly when it is in m1, with its value.
SameOtherClaims(m1, m2) ==
  /\ (DOMAIN m2) \ {"admin"} = (DOMAIN m1) \ {"admin"}
  /\ \A k \in (DOMAIN m1) \ {"admin"} : m2[k] = m1[k]

\* C18: a successful setAdminClaim writes the Credential Store exactly once,
\* the whole mapping it computed, and that mapping holds every key other
\* than `admin` with the value it had when the mapping was read, for
\* isAdmin true and false.
C18_WritePreservesOtherClaims ==
  [][\A i \in Slots :
       /\ (inv[i].pc = "getUser" /\ inv'[i].pc = "setClaims") =>
            SameOtherClaims(Existing(inv[i].uid), inv'[i].nextClaims)
       /\ (inv[i].pc = "setClaims" /\ inv'[i].pc = "done" /\ inv'[i].threw = "none") =>
            /\ inv[i].credWrites = 0 /\ inv'[i].credWrites = 1
            /\ customClaims'[inv[i].uid] = [defined |-> TRUE, map |-> inv[i].nextClaims]
            /\ \A u \in Uids \ {inv[i].uid} : customClaims'[u] = customClaims[u]
            /\ SameOtherClaims(inv[i].nextClaims, customClaims'[inv[i].uid].map)]_vars

C18_Witness ==
  \E i, j \in Slots :
    /\ HoldsWriteOf(j) /\ inv[j].readFrom = i /\ inv[i].isAdmin # inv[j].isAdmin
    /\ "role" \in DOMAIN Existing(inv[j].uid)

\* The document the last completion answer was for.
LastDoc == snap[IF tpc = "set" THEN idx ELSE idx - 1].id

\* C11: the script stores exactly the tags of the model's answer that belong
\* to the vocabulary (judged after lower-casing and trimming), in order,
\* and writes nothing when none belongs to it.
C11_StoresReturnedVocabularyTags ==
  resp # NoResp =>
    LET expected == MapFilter(resp.list)
    IN /\ tpc = "set" => tags = expected
       /\ tpc # "set" =>
            IF expected = << >>
              THEN stored = "none"
              ELSE /\ stored \in {"yes", "failed"}
                   /\ stored = "yes" =>
                        news[LastDoc].tags = [present |-> TRUE, list |-> expected]

\* C12: tags written by the script are values of the vocabulary, between
\* two and four of them, whatever the model answered.
C12_WrittenTagsTwoToFourOfVocabulary ==
  \A d \in written :
    /\ InSeq(news[d].tags.list) \subseteq ALLOWED_TAGS
    /\ Cardinality(InSeq(news[d].tags.list)) \in 2..4

\* C13: a document that had tags when the loop examined it is never
\* written, and a document that is written keeps every field but tags.
C13_WritesOnlyTagsOfUntagged ==
  /\ tpc = "set" => ~snap[idx].data.tags.present
  /\ \A k \in 1..Len(snap) :
       LET d == snap[k].id
       IN /\ snap[k].data.tags.present => (d \notin written /\ news[d] = snap[k].data)
          /\ news[d].title = snap[k].data.title
          /\ news[d].summary = snap[k].data.summary
          /\ d \notin written => news[d] = snap[k].data

C13_Witness ==
  /\ tpc = "done"
  /\ \E k, j \in 1..Len(snap) :
       /\ snap[k].data.tags.present
       /\ snap[j].id \in written
       /\ news[snap[j].id] # snap[j].data

\* Documents of the snapshot the loop has taken up so far.
Examined == IF tpc \in {"fetch", "set"} THEN idx ELSE idx - 1

\* Ids of the first n documents of the snapshot that had no tags.
LackingTags(n) ==
  LET untagged == SelectSeq(Prefix(snap, n), LAMBDA e : ~e.data.tags.present)
  IN [k \in 1..Len(untagged) |-> untagged[k].id]

\* C17: the loop takes the documents one at a time in snapshot order; an
\* error of the completion request or of the write ends neither the loop nor
\* the script: the documents attempted are, in order and once each, the
\* untagged documents taken up so far, main() returns only when all of the
\* snapshot was taken up, and the script does come to its end.
C17_LoopSurvivesFailures ==
  /\ [](tpc \in {"examine", "fetch", "set", "done"} =>
          /\ Examined \in 0..Len(snap)
          /\ attempted = LackingTags(Examined)
          /\ processed = Len(attempted)
          /\ tpc = "done" => Examined = Len(snap))
  /\ [](snap # << >> => tpc # "exit1")
  /\ <>(tpc \in {"done", "exit1"})

C17_Witness ==
  /\ tpc = "done"
  /\ errors > 0
  /\ attempted = <<"n1", "n2">>
  /\ written = {"n2"}

\* C14: a POST to sendContactEmail whose body lacks service_id, template_id,
\* user_id or template_params, or whose template_params is no object, is
\* answered 400 and no request goes out to the email service.
C14_IncompleteBodyAnswers400 ==
  LET b == cReq.body
  IN (/\ cReq.method = "POST"
      /\ \/ "absent" \in {b.service_id, b.template_id, b.user_id, b.template_params}
         \/ b.template_params \in {"null", "string", "number"})
     => /\ cCalls = 0
        /\ cPc \in {"received", "done"}
        /\ cPc = "done" => cRes = 400

C14_Witness ==
  /\ cReq.method = "POST"
  /\ cReq.body.service_id = "value" /\ cReq.body.template_id = "value"
  /\ cReq.body.user_id = "value" /\ cReq.body.template_params = "string"
  /\ cPc = "done" /\ cRes = 400

\* A POST with title, url and source.
WellFormedNewsRequest ==
  /\ nReq.method = "POST"
  /\ nReq.body.title = "value" /\ nReq.body.url = "value" /\ nReq.body.source = "value"

\* No key is configured, or the one completion request has failed.
NoSummaryToExpect == ~Truthy(openaiKey) \/ "fetch" \in rejected

\* The completion API is not called without a key, nor twice.
CompletionCalledAtMostOnceWithKey ==
  /\ apiCalls <= 1
  /\ ~Truthy(openaiKey) => apiCalls = 0

\* C15 as stated: a request with title, url and source is answered 200 with
\* summary "" and one document is written, whenever no key is configured or
\* the completion request fails; the API is not called without a key, nor
\* twice.
C15_EmptySummaryAlways200 ==
  /\ CompletionCalledAtMostOnceWithKey
  /\ (WellFormedNewsRequest /\ NoSummaryToExpect /\ nPc = "done") =>
       /\ nRes = [status |-> 200, summary |-> ""]
       /\ created = <<"">>

\* C15 amended: the same, unless the write of the document fails, which is
\* answered 500 with no document written.
C15_EmptySummary200UnlessWriteFails ==
  /\ CompletionCalledAtMostOnceWithKey
  /\ (WellFormedNewsRequest /\ NoSummaryToExpect /\ nPc = "done") =>
       IF "set" \in rejected
         THEN nRes.status = 500 /\ created = << >>
         ELSE nRes = [status |-> 200, summary |-> ""] /\ created = <<"">>

C15_Witness ==
  /\ WellFormedNewsRequest
  /\ Truthy(openaiKey) /\ apiCalls = 1 /\ rejected = {"fetch"}
  /\ nPc = "done"
  /\ nRes = [status |-> 200, summary |-> ""]
  /\ created = <<"">>

====
